---- MODULE Spec2Model ----
(***************************************************************************)
(* Model of the command pipeline of ykman/rpc/__init__.py: the receiver    *)
(* thread _handle_incoming() and the dispatch loop of process(), coupled   *)
(* by a Queue(1) and a threading.Event.                                    *)
(*                                                                         *)
(* Each step is one call on shared state (recv, Event.set/clear,           *)
(* Queue.join/put/get/task_done, send); the two threads interleave freely  *)
(* between such calls.  The transport (send/recv) and the handler are the  *)
(* environment: recv() returns a message, returns a falsy value or raises; *)
(* the handler emits signal frames and then returns a dict or raises;      *)
(* send() delivers every frame it is given.                                *)
(***************************************************************************)
EXTENDS Integers, Sequences, FiniteSets, TLC

\* Number of messages the client writes to the transport.
MaxMsgs == 3
\* Number of out-of-band signal frames a handler emits for one command.
MaxSignals == 1

\* Number of devices (and of readers) the external source can present.
MaxDevs == 2
\* Number of distinct values os.urandom(4).hex() takes.
MaxIds == 2
\* Number of close() calls made on one ConnectionNode.
MaxCloses == 2

\* Queue(1), process()
QueueMaxsize == 1
\* cmd_queue.put(None): the "no more commands" marker; commands are 1, 2, ...
Sentinel == 0

VARIABLES
    wire,        \* messages written by the client and not yet returned by recv()
    closed,      \* the client has closed the transport
    sent,        \* number of messages the client has written
    rpc,         \* position of the receiver thread
    request,     \* _handle_incoming: the value recv() returned last
    nAct,        \* number of action messages recv() has returned
    event,       \* the Event: the cancellation flag
    stamp,       \* nAct at the moment the flag last went from clear to set
    cancels,     \* number of cancel signals the receiver has handled
    queue,       \* cmd_queue: the items put and not yet got
    unfinished,  \* cmd_queue.unfinished_tasks
    dpc,         \* position of the dispatch loop
    dcur,        \* process(): the command got from the queue
    dres,        \* how the handler call for dcur ended: "ret" or "exc"
    dseen,       \* the flag as it was when the handler call for dcur ended
    nsig,        \* signal frames the handler has emitted for dcur
    frames,      \* everything passed to send(), in order
    outcomes,    \* how the handler call of each command ended, in order
    node,        \* the enumerating node the calls are made on
    attached,    \* what the external source of that node presents now
    nodeState,   \* self._state
    children,    \* self._devices / self._readers
    backing,     \* self._device_mapping / self._reader_mapping
    ret,         \* the mapping list_children() returned last
    child,       \* the DeviceNode the calls are made on
    conn,        \* the ConnectionNode _create_connection() constructed last
    op           \* the call made last on the node tree and how it ended

pipeVars == <<wire, closed, sent, rpc, request, nAct, event, stamp, cancels, queue,
              unfinished, dpc, dcur, dres, dseen, nsig, frames, outcomes>>

enumVars == <<nodeState, children, backing, ret>>

nodeVars == <<node, attached, enumVars, child, conn, op>>

vars == <<pipeVars, nodeVars>>

rcvVars == <<rpc, request, nAct, cancels>>
dspVars == <<dpc, dcur, dres, dseen, nsig, outcomes>>
cliVars == <<wire, closed, sent>>

----------------------------------------------------------------------------
(* Inbound messages.  A message is a dict; what the code looks at is       *)
(* whether it is empty, whether it has the keys "signal" and "action", and *)
(* the value of "signal".  sig = "" stands for "no signal key".            *)

Msg(s, a, x) == [sig |-> s, act |-> a, extra |-> x, eof |-> FALSE]

CancelMsg    == Msg("cancel", FALSE, FALSE)   \* {"signal": "cancel"}
StatusMsg    == Msg("status", FALSE, FALSE)   \* {"signal": "status"}
ActionMsg    == Msg("", TRUE, FALSE)          \* {"action": ..., "target": ...}
CancelActMsg == Msg("cancel", TRUE, FALSE)    \* {"signal": "cancel", "action": ...}
UnknownMsg   == Msg("", FALSE, TRUE)          \* {"foo": 1}
EmptyMsg     == Msg("", FALSE, FALSE)         \* {}

Messages == {CancelMsg, StatusMsg, ActionMsg, CancelActMsg, UnknownMsg, EmptyMsg}

\* recv() returning None
NoneReq == [sig |-> "", act |-> FALSE, extra |-> FALSE, eof |-> TRUE]

\* "not request": None and the empty dict are both falsy
Falsy(req) == req.eof \/ (req.sig = "" /\ ~req.act /\ ~req.extra)

HasSignal(req) == req.sig # ""
HasAction(req) == req.act
\* Variant: a value of "signal" other than "cancel" also counts as a cancel.
IsCancel_AnySignal(req) == req.sig # ""
\* request["signal"] == "cancel"
IsCancel(req) == req.sig = "cancel"

\* Variant: cmd_queue.join() hoisted above the classification, so that a
\* signal waits for the command in flight like an action does.
AfterRecv_JoinFirst(req) ==
    IF Falsy(req) THEN "eos_set"
    ELSE IF HasSignal(req) \/ HasAction(req) THEN "join"
    ELSE "unsupported"

\* The branch of the receiver loop a value returned by recv() takes.
AfterRecv(req) ==
    IF Falsy(req) THEN "eos_set"
    ELSE IF HasSignal(req) THEN "signal"
    ELSE IF HasAction(req) THEN "join"
    ELSE "unsupported"

----------------------------------------------------------------------------
(* queue.Queue and threading.Event as the code uses them.                  *)

\* put() blocks while the queue holds maxsize items
QueuePutReady == Len(queue) < QueueMaxsize
\* Variant: the receiver does not wait for the command in flight.
QueueJoinReady_NoWait == TRUE
\* join() blocks until every item put has been marked done
QueueJoinReady == unfinished = 0
\* get() blocks while the queue is empty
QueueGetReady == queue # <<>>

\* Variant: a handler that returns while the flag is set is answered with an
\* error frame.
ResultKind_Cancelled(res) == IF res = "ret" /\ ~event THEN "success" ELSE "error"
\* error(e) / success(data): the frame kind sent for a handler outcome
ResultKind(res) == IF res = "ret" THEN "success" ELSE "error"

Frame(k, c) == [kind |-> k, cmd |-> c]

\* Variant: the except clause swallows the exception without calling error().
SendResult_Swallow(fs, res, c) ==
    IF res = "exc" THEN fs ELSE Append(fs, Frame(ResultKind(res), c))

\* try: success(handler(...)) except Exception as e: error(e)
\* fs with the one result frame of command c appended
SendResult(fs, res, c) == Append(fs, Frame(ResultKind(res), c))

----------------------------------------------------------------------------
(* The node tree: ReadersNode and DevicesNode (the enumerating nodes),      *)
(* DeviceNode and ConnectionNode.  A call on a node is one step: it runs in *)
(* the dispatch loop's thread and the external source does not change       *)
(* while it runs.  A dict is the set of its <<key, value>> pairs; the value *)
(* kept for an identifier is the device (reader) it stands for.             *)

Nodes == {"readers", "devices"}
Devs == 1..MaxDevs
\* the values os.urandom(4).hex() can take
RandIds == 1..MaxIds
\* the identifiers a client may pass to create_child()
Names == (0..MaxDevs) \cup RandIds

\* SmartCardConnection, OtpConnection, FidoConnection in the order of get_data()
KindOrder == <<"ccid", "otp", "fido">>
Kinds == {KindOrder[i] : i \in 1..Len(KindOrder)}

Keys(m) == {p[1] : p \in m}
Lookup(m, k) == (CHOOSE p \in m : p[1] = k)[2]
\* m[k] = v
Put(m, k, v) == {p \in m : p[1] # k} \cup {<<k, v>>}

RECURSIVE SortedSeq(_)
\* the entries of the external source in the order it lists them
SortedSeq(S) ==
    IF S = {} THEN <<>>
    ELSE LET x == CHOOSE y \in S : \A z \in S : y <= z
         IN  <<x>> \o SortedSeq(S \ {x})

RECURSIVE ScanState(_)
\* scan_devices()[1]: a value that differs for different sets of devices and
\* is never the initial self._state of DevicesNode
ScanState(S) ==
    IF S = {} THEN 1
    ELSE LET x == CHOOSE y \in S : TRUE
         IN  2 ^ x + ScanState(S \ {x})

\* self._state = set() / self._state = 0
InitState(n) == IF n = "readers" THEN {} ELSE 0

\* state = {d.reader.name for d in devices} / state = scan_devices()[1]
CurState(n, S) == IF n = "readers" THEN S ELSE ScanState(S)

\* Variant: the cached state is not consulted, every call enumerates again.
Stale_Always(n, st, S) == TRUE
\* self._state != state
Stale(n, st, S) == st # CurState(n, S)

\* Variant: the descriptor is stored before get_name() is called and the
\* backing object after it.
RECURSIVE DevLoop_DescriptorFirst(_, _, _, _, _)
DevLoop_DescriptorFirst(devs, i, failAt, ch, bk) ==
    IF i > Len(devs) THEN [children |-> ch, backing |-> bk, ok |-> TRUE]
    ELSE LET id == Cardinality(ch)
             ch2 == Put(ch, id, devs[i])
         IN  IF failAt = i
                THEN [children |-> ch2, backing |-> bk, ok |-> FALSE]
                ELSE DevLoop_DescriptorFirst(devs, i + 1, failAt, ch2, Put(bk, id, devs[i]))

RECURSIVE DevLoop(_, _, _, _, _)
\* DevicesNode.list_children: the for loop from its i-th entry on; get_name()
\* raises for the failAt-th entry
DevLoop(devs, i, failAt, ch, bk) ==
    IF i > Len(devs) THEN [children |-> ch, backing |-> bk, ok |-> TRUE]
    ELSE LET id == Cardinality(ch)
             bk2 == Put(bk, id, devs[i])
         IN  IF failAt = i
                THEN [children |-> ch, backing |-> bk2, ok |-> FALSE]
                ELSE DevLoop(devs, i + 1, failAt, Put(ch, id, devs[i]), bk2)

RECURSIVE ReaderLoop(_, _, _, _, _)
\* ReadersNode.list_children: the for loop from its i-th entry on; ids[i] is
\* the value of os.urandom(4).hex() for the i-th entry
ReaderLoop(devs, i, ids, ch, bk) ==
    IF i > Len(devs) THEN [children |-> ch, backing |-> bk, ok |-> TRUE]
    ELSE ReaderLoop(devs, i + 1, ids,
                    Put(ch, ids[i], devs[i]), Put(bk, ids[i], devs[i]))

\* The enumeration of list_children() after both dicts were reset.
\* failAt = 0: list_all_devices() raises; failAt = i > 0: get_name() raises
\* for the i-th entry; failAt = -1: nothing raises.
Enumerate(n, S, failAt, ids) ==
    IF n = "readers" THEN ReaderLoop(SortedSeq(S), 1, ids, {}, {})
    ELSE IF failAt = 0 THEN [children |-> {}, backing |-> {}, ok |-> FALSE]
    ELSE DevLoop(SortedSeq(S), 1, failAt, {}, {})

\* the failure points of one enumeration of S
FailPoints(n, S) == IF n = "readers" THEN {-1} ELSE -1..Cardinality(S)
\* the identifier draws of one enumeration of S
IdDraws(n, S) ==
    IF n = "readers" THEN [1..Cardinality(S) -> RandIds]
    ELSE {<<>>}
\* self._info of the DeviceNode made for entry d: None for a reader, else the
\* info list_all_devices() gave, with a serial for the odd devices and
\* without one for the even devices
InfoOf(n, d) ==
    IF n = "readers" THEN "none"
    ELSE IF d % 2 = 1 THEN "serial" ELSE "noserial"

\* list_children() from the comparison of the states on: the node's fields
\* after the call, whether it returned and whether it enumerated.
ListChildren(n, st, ch, bk, S, failAt, ids) ==
    IF Stale(n, st, S)
       THEN LET e == Enumerate(n, S, failAt, ids)
            IN  [state |-> IF e.ok THEN CurState(n, S) ELSE st,
                 children |-> e.children, backing |-> e.backing,
                 ok |-> e.ok, enumerated |-> TRUE]
       ELSE [state |-> st, children |-> ch, backing |-> bk,
             ok |-> TRUE, enumerated |-> FALSE]

\* create_child: "name in self.list_children()" / "name in self._readers"
Refreshes(n) == n = "devices"

\* Variant: the reconnect by serial is tried whenever the kind is unsupported.
CreateConnection_AlwaysReconnect(sup, info, kind, openOk) ==
    IF kind \in sup
       THEN [res |-> IF openOk THEN "node" ELSE "raised", via |-> "open",
             opened |-> IF openOk THEN 1 ELSE 0]
       ELSE [res |-> IF openOk THEN "node" ELSE "raised", via |-> "reconnect",
             opened |-> IF openOk THEN 1 ELSE 0]

\* DeviceNode._create_connection(conn_type); openOk: the open or reconnect
\* call returns a connection instead of raising
CreateConnection(sup, info, kind, openOk) ==
    IF kind \in sup
       THEN [res |-> IF openOk THEN "node" ELSE "raised", via |-> "open",
             opened |-> IF openOk THEN 1 ELSE 0]
    ELSE IF info = "serial"
       THEN [res |-> IF openOk THEN "node" ELSE "raised", via |-> "reconnect",
             opened |-> IF openOk THEN 1 ELSE 0]
    ELSE [res |-> "unsupported", via |-> "none", opened |-> 0]

\* Variant: the connection is closed only on the normal return path.
Leftover_NoExit(readOk) == IF readOk THEN 0 ELSE 1
\* "with ... as conn": the connection is closed when the block is left,
\* by return or by exception; the number of connections left open
Leftover(readOk) == 0

RECURSIVE GetData(_, _, _, _)
\* DeviceNode.get_data(): the for loop from the i-th kind on
GetData(sup, i, openOk, readOk) ==
    IF i > Len(KindOrder)
       THEN [res |-> "nosupport", kind |-> "-", opened |-> 0, left |-> 0]
    ELSE IF KindOrder[i] \in sup
       THEN IF ~openOk
               THEN [res |-> "raised", kind |-> KindOrder[i], opened |-> 0, left |-> 0]
               ELSE [res |-> IF readOk THEN "data" ELSE "raised",
                     kind |-> KindOrder[i], opened |-> 1, left |-> Leftover(readOk)]
    ELSE GetData(sup, i + 1, openOk, readOk)

NoChild == [dev |-> 0, info |-> "none", from |-> "-"]
NoConn == [live |-> FALSE, closeCalls |-> 0, connCloses |-> 0]
NoOp == [op |-> "init", res |-> "-", enumerated |-> FALSE, name |-> 0,
         sup |-> {}, kind |-> "-", via |-> "-", opened |-> 0, left |-> 0]

----------------------------------------------------------------------------
\* process() before read_thread.start()
PipeInit ==
    /\ wire = <<>>
    /\ closed = FALSE
    /\ sent = 0
    /\ rpc = "recv"
    /\ request = NoneReq
    /\ nAct = 0
    /\ event = FALSE
    /\ stamp = 0
    /\ cancels = 0
    /\ queue = <<>>
    /\ unfinished = 0
    /\ dpc = "get"
    /\ dcur = 0
    /\ dres = "none"
    /\ dseen = FALSE
    /\ nsig = 0
    /\ frames = <<>>
    /\ outcomes = <<>>

\* the fields ReadersNode() / DevicesNode() sets, nothing returned yet
EnumInit ==
    /\ attached = {}
    /\ nodeState = InitState(node)
    /\ children = {}
    /\ backing = {}
    /\ ret = {}

\* run_rpc(): process(send, recv, RootNode())
Init ==
    /\ PipeInit
    /\ node = "devices"
    /\ EnumInit
    /\ child = NoChild
    /\ conn = NoConn
    /\ op = NoOp

----------------------------------------------------------------------------
(* The client side of the transport.                                       *)

ClientSend ==
    /\ ~closed
    /\ sent < MaxMsgs
    /\ \E m \in Messages : wire' = Append(wire, m)
    /\ sent' = sent + 1
    /\ UNCHANGED <<nodeVars, closed, rcvVars, event, stamp, queue, unfinished, dspVars, frames>>

ClientClose ==
    /\ ~closed
    /\ closed' = TRUE
    /\ UNCHANGED <<nodeVars, wire, sent, rcvVars, event, stamp, queue, unfinished, dspVars, frames>>

----------------------------------------------------------------------------
(* _handle_incoming                                                        *)

\* request = recv(), a message arrived
Recv ==
    /\ rpc = "recv"
    /\ wire # <<>>
    /\ request' = Head(wire)
    /\ wire' = Tail(wire)
    /\ rpc' = AfterRecv(Head(wire))
    /\ nAct' = IF AfterRecv(Head(wire)) = "join" THEN nAct + 1 ELSE nAct
    /\ UNCHANGED <<nodeVars, closed, sent, cancels, event, stamp, queue, unfinished, dspVars, frames>>

\* request = recv(), the transport is closed and drained: recv() returns None
RecvNone ==
    /\ rpc = "recv"
    /\ wire = <<>>
    /\ closed
    /\ request' = NoneReq
    /\ rpc' = AfterRecv(NoneReq)
    /\ UNCHANGED <<nodeVars, cliVars, nAct, cancels, event, stamp, queue, unfinished, dspVars, frames>>

\* request = recv() raises: the call is outside the try block, the exception
\* leaves _handle_incoming and the thread ends
RecvRaise ==
    /\ rpc = "recv"
    /\ rpc' = "crashed"
    /\ UNCHANGED <<nodeVars, cliVars, request, nAct, cancels, event, stamp, queue, unfinished, dspVars, frames>>

\* Variant: a signal other than "cancel" is answered with an error frame.
HandleSignal_ErrorOnOther ==
    /\ rpc = "signal"
    /\ IF IsCancel(request)
          THEN /\ event' = TRUE
               /\ stamp' = IF event THEN stamp ELSE nAct
               /\ cancels' = cancels + 1
               /\ UNCHANGED frames
          ELSE /\ frames' = Append(frames, Frame("error", 0))
               /\ UNCHANGED <<event, stamp, cancels>>
    /\ rpc' = "recv"
    /\ UNCHANGED <<nodeVars, cliVars, request, nAct, queue, unfinished, dspVars>>

\* "signal" in request
HandleSignal ==
    /\ rpc = "signal"
    /\ IF IsCancel(request)
          THEN /\ event' = TRUE
               /\ stamp' = IF event THEN stamp ELSE nAct
               /\ cancels' = cancels + 1
          ELSE UNCHANGED <<event, stamp, cancels>>
    /\ rpc' = "recv"
    /\ UNCHANGED <<nodeVars, cliVars, request, nAct, queue, unfinished, dspVars, frames>>

\* Variant: the action branch goes on to event.clear() without join().
ActionJoin_NoWait ==
    /\ rpc = "join"
    /\ rpc' = "clear"
    /\ UNCHANGED <<nodeVars, cliVars, request, nAct, cancels, event, stamp, queue, unfinished, dspVars, frames>>

\* cmd_queue.join()
ActionJoin ==
    /\ rpc = "join"
    /\ QueueJoinReady
    /\ rpc' = "clear"
    /\ UNCHANGED <<nodeVars, cliVars, request, nAct, cancels, event, stamp, queue, unfinished, dspVars, frames>>

\* Variant: the flag is not reset for the next command.
ActionClear_Skip ==
    /\ rpc = "clear"
    /\ rpc' = "put"
    /\ UNCHANGED <<nodeVars, cliVars, request, nAct, cancels, event, stamp, queue, unfinished, dspVars, frames>>

\* event.clear()
ActionClear ==
    /\ rpc = "clear"
    /\ event' = FALSE
    /\ stamp' = 0
    /\ rpc' = "put"
    /\ UNCHANGED <<nodeVars, cliVars, request, nAct, cancels, queue, unfinished, dspVars, frames>>

\* cmd_queue.put(request)
ActionPut ==
    /\ rpc = "put"
    /\ QueuePutReady
    /\ queue' = Append(queue, nAct)
    /\ unfinished' = unfinished + 1
    /\ rpc' = "recv"
    /\ UNCHANGED <<nodeVars, cliVars, request, nAct, cancels, event, stamp, dspVars, frames>>

\* error(Exception("Unsupported message type"))
HandleUnsupported ==
    /\ rpc = "unsupported"
    /\ frames' = Append(frames, Frame("error", 0))
    /\ rpc' = "recv"
    /\ UNCHANGED <<nodeVars, cliVars, request, nAct, cancels, event, stamp, queue, unfinished, dspVars>>

\* event.set() after the loop
EosSet ==
    /\ rpc = "eos_set"
    /\ event' = TRUE
    /\ stamp' = IF event THEN stamp ELSE nAct
    /\ rpc' = "eos_put"
    /\ UNCHANGED <<nodeVars, cliVars, request, nAct, cancels, queue, unfinished, dspVars, frames>>

\* Variant: the receiver ends without putting the sentinel.
EosPut_NoSentinel ==
    /\ rpc = "eos_put"
    /\ rpc' = "done"
    /\ UNCHANGED <<nodeVars, cliVars, request, nAct, cancels, event, stamp, queue, unfinished, dspVars, frames>>

\* cmd_queue.put(None)
EosPut ==
    /\ rpc = "eos_put"
    /\ QueuePutReady
    /\ queue' = Append(queue, Sentinel)
    /\ unfinished' = unfinished + 1
    /\ rpc' = "done"
    /\ UNCHANGED <<nodeVars, cliVars, request, nAct, cancels, event, stamp, dspVars, frames>>

----------------------------------------------------------------------------
(* process(): the dispatch loop                                            *)

\* request = cmd_queue.get(); if request is None: break
DispatchGet ==
    /\ dpc = "get"
    /\ QueueGetReady
    /\ queue' = Tail(queue)
    /\ dcur' = Head(queue)
    /\ dpc' = IF Head(queue) = Sentinel THEN "join_thread" ELSE "handler"
    /\ nsig' = 0
    /\ dres' = "none"
    /\ dseen' = FALSE
    /\ UNCHANGED <<nodeVars, cliVars, rcvVars, event, stamp, unfinished, frames, outcomes>>

\* the handler calls signal(name, ...)
HandlerSignal ==
    /\ dpc = "handler"
    /\ nsig < MaxSignals
    /\ nsig' = nsig + 1
    /\ frames' = Append(frames, Frame("signal", dcur))
    /\ UNCHANGED <<nodeVars, cliVars, rcvVars, event, stamp, queue, unfinished, dpc, dcur, dres, dseen, outcomes>>

\* the handler returns its data or raises
HandlerEnd ==
    /\ dpc = "handler"
    /\ \E r \in {"ret", "exc"} :
          /\ dres' = r
          /\ outcomes' = Append(outcomes, r)
    /\ dseen' = event
    /\ dpc' = "send"
    /\ UNCHANGED <<nodeVars, cliVars, rcvVars, event, stamp, queue, unfinished, dcur, nsig, frames>>

\* success(...) or, in the except clause, error(e)
DispatchSend ==
    /\ dpc = "send"
    /\ frames' = SendResult(frames, dres, dcur)
    /\ dpc' = "task_done"
    /\ UNCHANGED <<nodeVars, cliVars, rcvVars, event, stamp, queue, unfinished, dcur, dres, dseen, nsig, outcomes>>

\* Variant: task_done() inside the try block, skipped when the handler raises.
DispatchTaskDone_OnlyOnSuccess ==
    /\ dpc = "task_done"
    /\ unfinished' = IF dres = "exc" THEN unfinished ELSE unfinished - 1
    /\ dpc' = "get"
    /\ UNCHANGED <<nodeVars, cliVars, rcvVars, event, stamp, queue, dcur, dres, dseen, nsig, frames, outcomes>>

\* cmd_queue.task_done()
DispatchTaskDone ==
    /\ dpc = "task_done"
    /\ unfinished' = unfinished - 1
    /\ dpc' = "get"
    /\ UNCHANGED <<nodeVars, cliVars, rcvVars, event, stamp, queue, dcur, dres, dseen, nsig, frames, outcomes>>

\* read_thread.join()
DispatchJoinThread ==
    /\ dpc = "join_thread"
    /\ rpc \in {"done", "crashed"}
    /\ dpc' = "done"
    /\ UNCHANGED <<nodeVars, cliVars, rcvVars, event, stamp, queue, unfinished, dcur, dres, dseen, nsig, frames, outcomes>>

----------------------------------------------------------------------------
Client == ClientSend \/ ClientClose

Receiver ==
    \/ Recv \/ RecvNone \/ RecvRaise
    \/ HandleSignal \/ HandleUnsupported
    \/ ActionJoin \/ ActionClear \/ ActionPut
    \/ EosSet \/ EosPut

Dispatcher ==
    \/ DispatchGet \/ HandlerSignal \/ HandlerEnd
    \/ DispatchSend \/ DispatchTaskDone \/ DispatchJoinThread

Next == Client \/ Receiver \/ Dispatcher

Spec == Init /\ [][Next]_vars

----------------------------------------------------------------------------
(* Calls on one enumerating node and changes of its external source.       *)

\* ReadersNode() or DevicesNode(), just constructed
NodeInit ==
    /\ PipeInit
    /\ node \in Nodes
    /\ EnumInit
    /\ child = NoChild
    /\ conn = NoConn
    /\ op = NoOp

\* a list_children() call made now enumerates: nothing is drawn otherwise
WillEnumerate == Stale(node, nodeState, attached)

\* a device (reader) is plugged in or removed
ExternalChange ==
    /\ \E d \in Devs :
          attached' = IF d \in attached THEN attached \ {d} ELSE attached \cup {d}
    /\ op' = [NoOp EXCEPT !.op = "env"]
    /\ UNCHANGED <<pipeVars, node, enumVars, child, conn>>

\* list_children(): list_devices("") / scan_devices() raises
ListRaise ==
    /\ op' = [NoOp EXCEPT !.op = "list", !.res = "raised"]
    /\ UNCHANGED <<pipeVars, node, attached, enumVars, child, conn>>

\* ReadersNode.list_children() / DevicesNode.list_children()
ListCall ==
    \E failAt \in (IF WillEnumerate THEN FailPoints(node, attached) ELSE {-1}),
       ids \in (IF WillEnumerate THEN IdDraws(node, attached) ELSE {<<>>}) :
       LET r == ListChildren(node, nodeState, children, backing, attached, failAt, ids)
       IN  /\ nodeState' = r.state
           /\ children' = r.children
           /\ backing' = r.backing
           /\ ret' = IF r.ok THEN r.children ELSE ret
           /\ op' = [NoOp EXCEPT !.op = "list",
                                 !.res = IF r.ok THEN "ok" ELSE "raised",
                                 !.enumerated = r.enumerated]
           /\ UNCHANGED <<pipeVars, node, attached, child, conn>>

\* ReadersNode.create_child(name) / DevicesNode.create_child(name)
CreateChild ==
    \E name \in Names,
       failAt \in (IF Refreshes(node) /\ WillEnumerate
                      THEN FailPoints(node, attached) ELSE {-1}),
       ids \in (IF Refreshes(node) /\ WillEnumerate
                   THEN IdDraws(node, attached) ELSE {<<>>}) :
       LET r == IF Refreshes(node)
                   THEN ListChildren(node, nodeState, children, backing,
                                     attached, failAt, ids)
                   ELSE [state |-> nodeState, children |-> children,
                         backing |-> backing, ok |-> TRUE, enumerated |-> FALSE]
           res == IF ~r.ok THEN "raised"
                  ELSE IF name \notin Keys(r.children) THEN "notfound"
                  ELSE IF name \notin Keys(r.backing) THEN "keyerror"
                  ELSE "node"
       IN  /\ nodeState' = r.state
           /\ children' = r.children
           /\ backing' = r.backing
           /\ child' = IF res = "node"
                          THEN [dev |-> Lookup(r.backing, name),
                                info |-> InfoOf(node, Lookup(r.backing, name)),
                                from |-> node]
                          ELSE child
           /\ op' = [NoOp EXCEPT !.op = "resolve", !.res = res,
                                 !.enumerated = r.enumerated, !.name = name]
           /\ UNCHANGED <<pipeVars, node, attached, ret, conn>>

NodeNext == ExternalChange \/ ListRaise \/ ListCall \/ CreateChild

\* One enumerating node on its own, called by one handler at a time.
NodeSpec == NodeInit /\ [][NodeNext]_vars

----------------------------------------------------------------------------
(* Calls on one DeviceNode and on the ConnectionNode it constructs.        *)

\* DeviceNode(device, None) of a reader, DeviceNode(device, info) of a device
DeviceInit ==
    /\ PipeInit
    /\ node \in Nodes
    /\ EnumInit
    /\ \E d \in Devs :
          child = [dev |-> d, info |-> InfoOf(node, d), from |-> node]
    /\ conn = NoConn
    /\ op = NoOp

\* DeviceNode.ccid() / otp() / fido(); sup: the kinds for which
\* supports_connection() answers True
Connect ==
    /\ child # NoChild
    /\ \E kind \in Kinds, sup \in SUBSET Kinds, openOk \in BOOLEAN :
          LET c == CreateConnection(sup, child.info, kind, openOk)
          IN  /\ conn' = IF c.res = "node"
                            THEN [live |-> TRUE, closeCalls |-> 0, connCloses |-> 0]
                            ELSE conn
              /\ op' = [NoOp EXCEPT !.op = "connect", !.res = c.res, !.sup = sup,
                                    !.kind = kind, !.via = c.via, !.opened = c.opened]
    /\ UNCHANGED <<pipeVars, node, attached, enumVars, child>>

\* DeviceNode.get_data()
GetDataCall ==
    /\ child # NoChild
    /\ \E sup \in SUBSET Kinds, openOk \in BOOLEAN, readOk \in BOOLEAN :
          LET g == GetData(sup, 1, openOk, readOk)
          IN  op' = [NoOp EXCEPT !.op = "get_data", !.res = g.res, !.sup = sup,
                                 !.kind = g.kind, !.opened = g.opened, !.left = g.left]
    /\ UNCHANGED <<pipeVars, node, attached, enumVars, child, conn>>

\* ConnectionNode.close(): super().close(), then self._connection.close()
CloseCall ==
    /\ conn.live
    /\ conn.closeCalls < MaxCloses
    /\ conn' = [conn EXCEPT !.closeCalls = @ + 1, !.connCloses = @ + 1]
    /\ op' = [NoOp EXCEPT !.op = "close", !.res = "ok"]
    /\ UNCHANGED <<pipeVars, node, attached, enumVars, child>>

DeviceNext == Connect \/ GetDataCall \/ CloseCall

\* One DeviceNode on its own, called by one handler at a time.
DeviceSpec == DeviceInit /\ [][DeviceNext]_vars

\* Both threads are scheduled by the operating system and every call that is
\* not blocked completes; a handler call ends after at most MaxSignals frames.
LiveSpec == Spec /\ WF_vars(Receiver) /\ WF_vars(Dispatcher)

----------------------------------------------------------------------------
(* Derived notions used by the properties.                                 *)

IsCommand(item) == item # Sentinel
CommandsQueued == Len(SelectSeq(queue, IsCommand))
HandlerBusy == dpc \in {"handler", "send", "task_done"}
InFlight == CommandsQueued + (IF HandlerBusy THEN 1 ELSE 0)

IsResult(f) == f.kind # "signal"
ResultFrames == SelectSeq(frames, IsResult)
ResultsFor(k) == SelectSeq(frames, LAMBDA f : f.kind # "signal" /\ f.cmd = k)

\* the result frame of the k-th command has been sent
Answered(k) == k <= Len(outcomes) /\ ~(k = Len(outcomes) /\ dpc = "send")
NumAnswered == Len(outcomes) - (IF dpc = "send" THEN 1 ELSE 0)

\* every value recv() has returned so far was an action message
OnlyActions == nAct = sent - Len(wire)

\* the receiver is blocked in join() until the command in flight is marked done
WaitsForCommand == rpc = "join" /\ unfinished > 0

----------------------------------------------------------------------------
\* C1: at most one command is in flight: the commands on the queue plus the
\* command the dispatch loop is handling are never more than one, so the
\* handler never runs while another command is queued.
C1_AtMostOneInFlight == InFlight <= 1

\* a second action message is waiting in join() while the first is handled
C1_Witness == dpc = "handler" /\ rpc = "join" /\ nAct = 2 /\ dcur = 1

\* C2: while only action messages have been received, the result frames sent
\* are exactly one per answered command, in the order the action messages
\* were received, and once the dispatch loop has stopped every action message
\* received has been answered.
C2_OneResultPerActionInOrder ==
    OnlyActions =>
        /\ Len(ResultFrames) = NumAnswered
        /\ \A i \in 1..Len(ResultFrames) : ResultFrames[i].cmd = i
        /\ dpc \in {"join_thread", "done"} => NumAnswered = nAct

\* two action messages, nothing else, both answered in order and the loop over
C2_Witness ==
    /\ OnlyActions /\ nAct = 2 /\ dpc = "done"
    /\ Len(ResultFrames) = 2 /\ ResultFrames[1].cmd = 1 /\ ResultFrames[2].cmd = 2

\* C3 as stated: a cancel signal never has to wait for a command to finish:
\* the receiver is never blocked on the command in flight while the next
\* message on the transport is a cancel signal.
C3_SignalNeverWaits ==
    ~(WaitsForCommand /\ wire # <<>> /\ Head(wire).sig = "cancel")

\* C3 amended: the receiver waits for a command to finish only on behalf of an
\* action message; an iteration that read a signal never waits.
C3_WaitsOnlyForAction ==
    /\ WaitsForCommand => (request.act /\ request.sig = "")
    /\ request.sig # "" /\ ~request.eof => rpc \in {"signal", "recv", "crashed"}

\* a cancel signal is next on the transport while the receiver is blocked in
\* join() for an action message and the previous command is being handled
C3_Witness ==
    /\ WaitsForCommand /\ dpc = "handler"
    /\ wire # <<>> /\ Head(wire).sig = "cancel"

\* C4: a new command starts uncancelled: the flag is clear and nothing is
\* outstanding when the command is put, and while its handler runs the flag is
\* set only if it was set after the command's action message was received.
C4_NewCommandStartsUncancelled ==
    /\ rpc = "put" => (~event /\ unfinished = 0)
    /\ (dpc = "handler" /\ event) => stamp >= dcur

\* a cancel signal was handled, then an action message, and the handler of
\* that command runs with the flag clear
C4_Witness == dpc = "handler" /\ ~event /\ cancels > 0 /\ nAct = dcur

\* C5 as stated: the flag goes from clear to set only when the receiver handles
\* a cancel signal or when no command is queued or being handled.
C5_SetOnlyByCancelOrIdle ==
    [][(~event /\ event') =>
         \/ (rpc = "signal" /\ request.sig = "cancel")
         \/ InFlight = 0]_vars

\* C5 amended: the flag goes from clear to set only when the receiver handles a
\* cancel signal or when the receiver has left its loop at end-of-stream.
C5_SetOnlyByCancelOrEos ==
    [][(~event /\ event') =>
         \/ (rpc = "signal" /\ request.sig = "cancel")
         \/ rpc = "eos_set"]_vars

\* the flag was set at end-of-stream, by no cancel signal, while a command is
\* being handled
C5_Witness == rpc = "eos_put" /\ event /\ cancels = 0 /\ dpc = "handler"

\* C6: once recv() has reported end-of-stream, eventually the receiver thread
\* and the dispatch loop have both terminated and every action message
\* received has exactly one result frame; the dispatch loop never stops on the
\* sentinel before every action message received has its result frame.
C6_EosTerminatesAnswered ==
    /\ (rpc = "eos_set") ~>
          /\ rpc = "done"
          /\ dpc = "done"
          /\ \A k \in 1..nAct : Len(ResultsFor(k)) = 1
    /\ [](dpc \in {"join_thread", "done"} =>
            \A k \in 1..nAct : Len(ResultsFor(k)) = 1)

\* both threads have terminated after two commands were answered
C6_Witness ==
    /\ rpc = "done" /\ dpc = "done" /\ nAct = 2
    /\ \A k \in 1..nAct : Len(ResultsFor(k)) = 1

\* C7 as stated: recv() raising never terminates the receiver loop.
C7_RecvFailureSurvived == rpc # "crashed"

\* C8: a handler call that raised is answered with exactly one error frame for
\* that command, its queue item is marked done (until the sentinel is taken
\* the unfinished count is the items queued plus the one being handled), and
\* the loop goes on to the next command.
C8_HandlerFailureContained ==
    /\ \A k \in 1..Len(outcomes) :
          outcomes[k] = "exc" =>
              ResultsFor(k) = IF Answered(k) THEN <<Frame("error", k)>> ELSE <<>>
    /\ dpc \notin {"join_thread", "done"} =>
          unfinished = Len(queue) + (IF HandlerBusy THEN 1 ELSE 0)

\* the first handler call raised and the second command has been answered
C8_Witness ==
    /\ Len(outcomes) = 2 /\ outcomes[1] = "exc" /\ Answered(2)
    /\ ResultsFor(1) = <<Frame("error", 1)>> /\ Len(ResultsFor(2)) = 1

\* C9 as stated: after recv() returned a message with neither a signal nor an
\* action, the receiver reports the error and goes on receiving: it does not
\* leave its loop.
C9_NeitherContinues ==
    (~request.eof /\ request.sig = "" /\ ~request.act) =>
        rpc \in {"unsupported", "recv", "crashed"}

\* C10: setting the flag changes neither the queue nor the dispatch loop nor
\* the frames sent, and the result frame of a command is a success frame
\* exactly when its handler returned, whatever the flag was.
C10_CancelIsAdvisory ==
    [][/\ (~event /\ event') =>
             UNCHANGED <<queue, unfinished, dpc, dcur, dres, nsig, frames, outcomes>>
       /\ (dpc = "send" /\ dpc' = "task_done") =>
             frames' = Append(frames,
                              Frame(IF dres = "ret" THEN "success" ELSE "error", dcur))]_vars

\* the handler returned while the flag was set by a cancel signal and the
\* command was answered with a success frame
C10_Witness ==
    /\ dpc = "task_done" /\ dseen /\ cancels > 0 /\ dres = "ret"
    /\ frames[Len(frames)] = Frame("success", dcur)

\* C11: a cancel signal handled while a command is queued or being handled
\* stays in force for that command: the flag is never cleared while a command
\* is queued or being handled, so a flag set during a command is still set
\* until that command has been marked done.
C11_CancelStaysInForce ==
    [][(event /\ ~event') => (InFlight = 0 /\ unfinished = 0)]_vars

\* a cancel signal was handled during command dcur, the command has been
\* answered and the flag is still set while the next action waits in join()
C11_Witness ==
    /\ dpc = "task_done" /\ event /\ cancels > 0 /\ stamp = dcur
    /\ rpc = "join" /\ nAct = dcur + 1

\* C17: handling a signal whose name is not "cancel" sends no frame and leaves
\* the flag and the queue unchanged, and the iteration that read it never goes
\* to a place where the receiver waits for the command in flight.
C17_OtherSignalIgnored ==
    /\ [][(rpc = "signal" /\ request.sig # "cancel" /\ rpc' # "signal") =>
             /\ rpc' = "recv"
             /\ UNCHANGED <<event, stamp, cancels, queue, unfinished, frames>>]_vars
    /\ [](~request.eof /\ request.sig \notin {"", "cancel"} =>
             rpc \in {"signal", "recv", "crashed"})

\* a "status" signal has been handled while a command is being handled: the
\* flag is still clear and nothing was sent
C17_Witness ==
    /\ request.sig = "status" /\ rpc = "recv"
    /\ dpc = "handler" /\ ~event /\ frames = <<>>

----------------------------------------------------------------------------
(* Derived notions for the node tree.                                      *)

\* the mappings a complete enumeration of the external state S can produce
CompleteEnums(n, S) == {Enumerate(n, S, -1, ids).children : ids \in IdDraws(n, S)}

\* the mappings a list_children() call made now can return
FreshListings ==
    IF nodeState = CurState(node, attached) THEN {children}
    ELSE CompleteEnums(node, attached)

\* the first kind of KindOrder that is in sup
IsFirstSupported(k, sup) ==
    \E i \in 1..Len(KindOrder) :
       /\ KindOrder[i] = k
       /\ k \in sup
       /\ \A j \in 1..(i - 1) : KindOrder[j] \notin sup

----------------------------------------------------------------------------
\* C12 as stated, for DevicesNode: a list_children() call that finds the
\* external state changed, enumerates again and returns gives a mapping that
\* shares no identifier with the mapping returned before.  (ReadersNode draws
\* its identifiers at random; they repeat only when a draw repeats.)
C12_FreshIdentifiers ==
    [][(node = "devices" /\ op'.op = "list" /\ op'.res = "ok" /\ op'.enumerated) =>
          Keys(ret') \cap Keys(ret) = {}]_vars

\* C13: of two consecutive list_children() calls that both return, with no
\* change of the external state in between, the second returns the mapping
\* the first returned, does not enumerate and leaves the node's state, its
\* identifiers and its backing objects as they were.
C13_RepeatedListIsCached ==
    [][(op.op = "list" /\ op.res = "ok" /\ op'.op = "list" /\ op'.res = "ok") =>
          /\ ret' = ret
          /\ ~op'.enumerated
          /\ <<nodeState, children, backing>>' = <<nodeState, children, backing>>]_vars

\* a list_children() call answered from the cache with a non-empty mapping
C13_Witness ==
    /\ op.op = "list" /\ op.res = "ok" /\ ~op.enumerated
    /\ ret # {} /\ ret = children /\ ~Stale(node, nodeState, attached)

\* C14 as stated: create_child() constructs a child only for an identifier
\* that a list_children() call made at that moment would list.
C14_ResolveRefreshes ==
    (op.op = "resolve" /\ op.res = "node") =>
        \E m \in FreshListings : op.name \in Keys(m)

\* C15 as stated: however many times close() was called on a ConnectionNode,
\* the close of the wrapped connection was invoked once.
C15_ClosedOnce == conn.closeCalls >= 1 => conn.connCloses = 1

\* C16: a capability accessor fails as unsupported exactly when the kind is
\* not supported and the node has no info with a serial; a supported kind is
\* opened directly, an unsupported one with a serial is reconnected by serial;
\* a call that fails opens nothing and constructs no ConnectionNode.
C16_UnsupportedExactly ==
    /\ [](op.op = "connect" =>
            /\ op.res = "unsupported" <=> (op.kind \notin op.sup /\ child.info # "serial")
            /\ op.kind \in op.sup => op.via = "open"
            /\ (op.kind \notin op.sup /\ child.info = "serial") => op.via = "reconnect"
            /\ op.res = "unsupported" => op.via = "none"
            /\ op.opened = IF op.res = "node" THEN 1 ELSE 0)
    /\ [][(op'.op = "connect" /\ op'.res # "node") => conn' = conn]_vars

\* ccid on the DeviceNode of a reader that does not support it
C16_Witness ==
    /\ op.op = "connect" /\ op.res = "unsupported" /\ op.kind = "ccid"
    /\ child.from = "readers" /\ child.info = "none" /\ "otp" \in op.sup

\* C18 as stated: a mapping list_children() returns from its cache is what a
\* complete enumeration of the current external state produces.
C18_CacheIsCompleteEnumeration ==
    (op.op = "list" /\ op.res = "ok" /\ ~op.enumerated) =>
        ret \in CompleteEnums(node, attached)

\* C19: every identifier in the listing has an entry in the backing-object
\* mapping, also after an enumeration that raised part-way, and create_child()
\* never fails on a missing key.
C19_ListedHasBacking ==
    /\ Keys(children) \subseteq Keys(backing)
    /\ op.res # "keyerror"

\* an enumeration raised in get_name(): the backing-object mapping has an
\* entry the listing does not have
C19_Witness ==
    /\ op.op = "list" /\ op.res = "raised" /\ op.enumerated
    /\ Keys(children) # Keys(backing)

\* C20: get_data() uses the first supported kind in the order ccid, otp, fido,
\* opens at most one connection (one whenever open_connection() returns),
\* leaves no connection open whether it returns or raises, and fails without
\* opening anything exactly when no kind is supported.
C20_GetDataClosesConnection ==
    op.op = "get_data" =>
        /\ op.left = 0
        /\ op.res = "nosupport" <=> op.sup = {}
        /\ op.res = "nosupport" => op.opened = 0
        /\ op.sup # {} => IsFirstSupported(op.kind, op.sup)
        /\ op.res = "data" => op.opened = 1
        /\ op.opened <= 1

\* read_info() raised on the otp connection of a device without ccid: the
\* one connection opened is closed again
C20_Witness ==
    /\ op.op = "get_data" /\ op.res = "raised" /\ op.opened = 1 /\ op.left = 0
    /\ op.kind = "otp" /\ op.sup = {"otp", "fido"}

====
